---- MODULE Spec2Model ----
(***************************************************************************)
(* The configuration wizard of custom_components/pvpc_updated:             *)
(* TariffSelectorConfigFlow (setup and re-authentication) and              *)
(* PVPCOptionsFlowHandler (options), driven by the host's flow manager.    *)
(* Every step handler is an operator from the flow object, the submitted   *)
(* user_input and the validator's answer to the flow object it leaves      *)
(* behind and the result it returns; the actions hand that result to the   *)
(* host, which shows the form, stores the entry or drops the flow.         *)
(***************************************************************************)
EXTENDS Integers, FiniteSets, Sequences, TLC

\* ------------------------------------------------------------------ bounds
MaxStarts == 2      \* flows started in one run
MaxSurplus == 2     \* validator calls not matched by a verification attempt
MaxEntries == 2     \* entry ids handed out in one run

\* ------------------------------------------------------------------ values
None == "<None>"
NoEntry == 0
NoPower == 0
Names == {"PVPC"}
Tariffs == {"2.0TD", "WK"}
\* the (power, power_p3) pairs a form may carry
PowerPairs == {<<3, 4>>, <<5, 6>>}
StrTokens == {"", "tokA"}
Tokens == StrTokens \cup {None}

\* Python truthiness of an optional string
Truthy(s) == s # None /\ s # ""

\* ------------------------------------------------------------------ dicts
\* A dict is a function on the keys it holds; user_input=None is NoInput.
EmptyDict == [k \in {} |-> None]
NoInput == [k \in {"<NoInput>"} |-> TRUE]
IsNone(d) == DOMAIN d = {"<NoInput>"}
Has(d, k) == k \in DOMAIN d
Get(d, k) == IF k \in DOMAIN d THEN d[k] ELSE None
Get2(d, k, dflt) == IF k \in DOMAIN d THEN d[k] ELSE dflt
DictTruthy(d) == ~IsNone(d) /\ DOMAIN d # {}

\* ------------------------------------------------------------------ results
\* A form's data_schema, by the defaults of the fields it declares; a form
\* shown without data_schema carries NoSchema and the host validates nothing.
NoSchema == [on |-> FALSE, use_api_token |-> FALSE, api_token |-> None]
Schema(use, tok) == [on |-> TRUE, use_api_token |-> use, api_token |-> tok]

\* What a step handler returns to the host.
Result(kind, step_id, schema, errors, reason, data, entry) ==
    [kind |-> kind, step_id |-> step_id, schema |-> schema,
     errors |-> errors, reason |-> reason, data |-> data, entry |-> entry]

async_show_form(step_id, schema, errors) ==
    Result("form", step_id, schema, errors, "", EmptyDict, NoEntry)

async_create_entry(data) ==
    Result("create_entry", "", NoSchema, "", "", data, NoEntry)

async_abort(reason) ==
    Result("abort", "", NoSchema, "", reason, EmptyDict, NoEntry)

\* An exception that leaves the handler: the host keeps the flow where it was.
Raise(exc) ==
    Result("exception", "", NoSchema, "", exc, EmptyDict, NoEntry)

\* The host's async_update_reload_and_abort(entry, data=data): it reads
\* entry.entry_id, so an entry of None raises AttributeError before anything
\* is written; otherwise the entry's data is replaced and the flow aborts
\* with reason reauth_successful.
async_update_reload_and_abort(entry, data) ==
    IF entry = NoEntry
    THEN Raise("AttributeError")
    ELSE Result("abort", "", NoSchema, "", "reauth_successful", data, entry)

\* What a handler call leaves: the flow object, the result, and the validator
\* call it made (calls is 0 or 1, tok the token handed to the validator).
Out(self, res, calls, tok, ok) ==
    [self |-> self, res |-> res, calls |-> calls, tok |-> tok, ok |-> ok]

\* ------------------------------------------------------------------ TariffSelectorConfigFlow
\* no token of the session has been rejected by the validator
NotRejected == "<NotRejected>"

\* The class attributes of a fresh flow object, with the host's view of it.
\* origin and rejected are history: the submission the session took its record
\* fields from (the user step's input, or the entry data a reauth flow was
\* started with), and the token the validator rejected last.
IdleFlow ==
    [st |-> "idle", source |-> "user", cur_step |-> "", schema |-> NoSchema,
     unique_id |-> None, entry_id |-> NoEntry, shown |-> FALSE,
     origin |-> EmptyDict, rejected |-> NotRejected,
     _name |-> None, _tariff |-> None, _power |-> NoPower, _power_p3 |-> NoPower,
     _use_api_token |-> FALSE, _api_token |-> None, _api |-> FALSE]

FlowData(self) ==
    [name |-> self._name, tariff |-> self._tariff, power |-> self._power,
     power_p3 |-> self._power_p3,
     api_token |-> IF self._use_api_token THEN self._api_token ELSE None]

\* The entry _async_verify hands to async_update_reload_and_abort.
ReauthTarget(self) == NoEntry

\* _async_verify going on to store the record whatever the validator said
_async_verify_unchecked(self, step_id, ok) ==
    LET called == self._use_api_token
        s1 == IF called THEN [self EXCEPT !._api = TRUE] ELSE self
        calls == IF called THEN 1 ELSE 0
        tok == IF called THEN self._api_token ELSE None
    IN  IF s1.source = "reauth"
        THEN Out(s1, async_update_reload_and_abort(ReauthTarget(s1), FlowData(s1)),
                 calls, tok, called /\ ok)
        ELSE Out(s1, async_create_entry(FlowData(s1)), calls, tok, called /\ ok)

\* _async_verify calling the validator also when _use_api_token is false
_async_verify_always(self, step_id, ok) ==
    LET s1 == [self EXCEPT !._api = TRUE]
    IN  IF ~ok
        THEN Out(s1, async_show_form(step_id, NoSchema, "invalid_auth"),
                 1, self._api_token, FALSE)
        ELSE IF s1.source = "reauth"
        THEN Out(s1, async_update_reload_and_abort(ReauthTarget(s1), FlowData(s1)),
                 1, self._api_token, TRUE)
        ELSE Out(s1, async_create_entry(FlowData(s1)), 1, self._api_token, TRUE)

\* _async_verify reporting a rejected token under another error key
_async_verify_unknown(self, step_id, ok) ==
    LET called == self._use_api_token
        s1 == IF called THEN [self EXCEPT !._api = TRUE] ELSE self
        auth_ok == IF called THEN ok ELSE TRUE
        calls == IF called THEN 1 ELSE 0
        tok == IF called THEN self._api_token ELSE None
    IN  IF ~auth_ok
        THEN Out(s1, async_show_form(step_id, NoSchema, "unknown"), calls, tok, FALSE)
        ELSE IF s1.source = "reauth"
        THEN Out(s1, async_update_reload_and_abort(ReauthTarget(s1), FlowData(s1)),
                 calls, tok, called)
        ELSE Out(s1, async_create_entry(FlowData(s1)), calls, tok, called)

_async_verify(self, step_id, ok) ==
    LET called == self._use_api_token
        s1 == IF called THEN [self EXCEPT !._api = TRUE] ELSE self
        auth_ok == IF called THEN ok ELSE TRUE
        calls == IF called THEN 1 ELSE 0
        tok == IF called THEN self._api_token ELSE None
    IN  IF ~auth_ok
        THEN Out(s1, async_show_form(step_id, NoSchema, "invalid_auth"), calls, tok, FALSE)
        ELSE IF s1.source = "reauth"
        THEN Out(s1, async_update_reload_and_abort(ReauthTarget(s1), FlowData(s1)),
                 calls, tok, called)
        ELSE IF s1._name = None
        THEN Out(s1, Raise("AssertionError"), calls, tok, called)
        ELSE Out(s1, async_create_entry(FlowData(s1)), calls, tok, called)

\* async_step_api_token keeping the token of an earlier submission
async_step_api_token_keeps_first(self, user_input, ok) ==
    IF ~IsNone(user_input)
    THEN IF ~Has(user_input, "api_token")
         THEN Out(self, Raise("KeyError"), 0, None, FALSE)
         ELSE _async_verify([self EXCEPT !._api_token =
                                IF @ # None THEN @ ELSE user_input["api_token"]],
                            "api_token", ok)
    ELSE Out(self, async_show_form("api_token", Schema(FALSE, self._api_token), ""), 0, None, FALSE)

async_step_api_token(self, user_input, ok) ==
    IF ~IsNone(user_input)
    THEN IF ~Has(user_input, "api_token")
         THEN Out(self, Raise("KeyError"), 0, None, FALSE)
         ELSE _async_verify([self EXCEPT !._api_token = user_input["api_token"]],
                            "api_token", ok)
    ELSE Out(self, async_show_form("api_token", Schema(FALSE, self._api_token), ""), 0, None, FALSE)

\* the unique id checked against the flows in progress only
UniqueIdAbort_in_progress_only(uid, in_progress, configured) ==
    IF uid \in in_progress THEN "already_in_progress" ELSE ""

\* async_set_unique_id followed by _abort_if_unique_id_configured: the host
\* aborts when another flow in progress holds the unique id, or an entry does.
UniqueIdAbort(uid, in_progress, configured) ==
    IF uid \in in_progress THEN "already_in_progress"
    ELSE IF uid \in configured THEN "already_configured"
    ELSE ""

\* async_step_user creating the entry without looking at use_api_token
async_step_user_no_branch(self, user_input, ok, in_progress, configured) ==
    IF ~IsNone(user_input)
    THEN LET reason == UniqueIdAbort(user_input["tariff"], in_progress, configured)
             s1 == [self EXCEPT !.unique_id = user_input["tariff"],
                                !._name = user_input["name"],
                                !._tariff = user_input["tariff"],
                                !._power = user_input["power"],
                                !._power_p3 = user_input["power_p3"],
                                !._use_api_token = user_input["use_api_token"]]
         IN  IF reason # ""
             THEN Out(self, async_abort(reason), 0, None, FALSE)
             ELSE Out(s1, async_create_entry(FlowData(s1)), 0, None, FALSE)
    ELSE Out(self, async_show_form("user", Schema(FALSE, None), ""), 0, None, FALSE)

\* async_step_user without the unique id check
async_step_user_no_unique_id(self, user_input, ok, in_progress, configured) ==
    IF ~IsNone(user_input)
    THEN LET s1 == [self EXCEPT !.unique_id = user_input["tariff"],
                                !._name = user_input["name"],
                                !._tariff = user_input["tariff"],
                                !._power = user_input["power"],
                                !._power_p3 = user_input["power_p3"],
                                !._use_api_token = user_input["use_api_token"]]
         IN  IF s1._use_api_token
             THEN async_step_api_token(s1, NoInput, ok)
             ELSE Out(s1, async_create_entry(FlowData(s1)), 0, None, FALSE)
    ELSE Out(self, async_show_form("user", Schema(FALSE, None), ""), 0, None, FALSE)

\* async_step_user never giving the flow a unique id
async_step_user_unidentified(self, user_input, ok, in_progress, configured) ==
    IF ~IsNone(user_input)
    THEN LET s1 == [self EXCEPT !._name = user_input["name"],
                                !._tariff = user_input["tariff"],
                                !._power = user_input["power"],
                                !._power_p3 = user_input["power_p3"],
                                !._use_api_token = user_input["use_api_token"]]
         IN  IF s1._use_api_token
             THEN async_step_api_token(s1, NoInput, ok)
             ELSE Out(s1, async_create_entry(FlowData(s1)), 0, None, FALSE)
    ELSE Out(self, async_show_form("user", Schema(FALSE, None), ""), 0, None, FALSE)

async_step_user(self, user_input, ok, in_progress, configured) ==
    IF ~IsNone(user_input)
    THEN LET reason == UniqueIdAbort(user_input["tariff"], in_progress, configured)
             s1 == [self EXCEPT !.unique_id = user_input["tariff"],
                                !._name = user_input["name"],
                                !._tariff = user_input["tariff"],
                                !._power = user_input["power"],
                                !._power_p3 = user_input["power_p3"],
                                !._use_api_token = user_input["use_api_token"]]
         IN  IF reason # ""
             THEN Out(self, async_abort(reason), 0, None, FALSE)
             ELSE IF s1._use_api_token
             THEN async_step_api_token(s1, NoInput, ok)
             ELSE Out(s1, async_create_entry(FlowData(s1)), 0, None, FALSE)
    ELSE Out(self, async_show_form("user", Schema(FALSE, None), ""), 0, None, FALSE)

async_step_reauth_confirm(self, user_input, ok) ==
    IF DictTruthy(user_input)
    THEN LET s1 == [self EXCEPT !._api_token = Get(user_input, "api_token")]
         IN  IF ~Has(user_input, "use_api_token")
             THEN Out(s1, Raise("KeyError"), 0, None, FALSE)
             ELSE _async_verify([s1 EXCEPT !._use_api_token = user_input["use_api_token"]],
                                "reauth_confirm", ok)
    ELSE Out(self, async_show_form("reauth_confirm",
                              Schema(self._use_api_token, self._api_token), ""), 0, None, FALSE)

async_step_reauth(self, entry_data, ok) ==
    async_step_reauth_confirm(
        [self EXCEPT !._api_token = Get(entry_data, "api_token"),
                     !._use_api_token = Get(entry_data, "api_token") # None,
                     !._name = entry_data["name"],
                     !._tariff = entry_data["tariff"],
                     !._power = entry_data["power"],
                     !._power_p3 = entry_data["power_p3"]],
        NoInput, ok)

\* ------------------------------------------------------------------ PVPCOptionsFlowHandler
\* origin is history: the init submission of the session.
IdleOptions ==
    [st |-> "idle", cur_step |-> "", schema |-> NoSchema, entry_id |-> NoEntry,
     origin |-> EmptyDict, _power |-> NoPower, _power_p3 |-> NoPower]

\* options.get(key, data.get(key)) on a stored entry
Current(entry, key) == Get2(entry.options, key, Get(entry.data, key))

OptionsData(self, api_token) ==
    [power |-> self._power, power_p3 |-> self._power_p3, api_token |-> api_token]

\* the options api_token step falling back on the entry's current token
options_async_step_api_token_default(self, user_input, entry) ==
    LET default_token == Current(entry, "api_token")
        submitted == IF DictTruthy(user_input) THEN Get(user_input, "api_token") ELSE None
        api_token == IF Truthy(submitted) THEN submitted ELSE default_token
    IN  IF ~IsNone(user_input) /\ Truthy(api_token)
        THEN Out(self, async_create_entry(OptionsData(self, api_token)), 0, None, FALSE)
        ELSE Out(self, async_show_form("api_token", Schema(FALSE, default_token), ""),
                 0, None, FALSE)

options_async_step_api_token(self, user_input, entry) ==
    LET api_token == IF DictTruthy(user_input) THEN Get(user_input, "api_token") ELSE None
        default_token == Current(entry, "api_token")
    IN  IF ~IsNone(user_input) /\ Truthy(api_token)
        THEN Out(self, async_create_entry(OptionsData(self, api_token)), 0, None, FALSE)
        ELSE Out(self, async_show_form("api_token", Schema(FALSE, default_token), ""),
                 0, None, FALSE)

\* the init step storing the entry's current token when use_api_token is false
options_async_step_init_keeps_token(self, user_input, entry) ==
    LET api_token == Current(entry, "api_token")
        use_api_token == api_token # None
    IN  IF ~IsNone(user_input)
        THEN LET s1 == [self EXCEPT !._power = user_input["power"],
                                    !._power_p3 = user_input["power_p3"]]
             IN  IF user_input["use_api_token"]
                 THEN options_async_step_api_token(s1, user_input, entry)
                 ELSE Out(s1, async_create_entry(OptionsData(s1, api_token)), 0, None, FALSE)
        ELSE Out(self, async_show_form("init", Schema(use_api_token, None), ""),
                 0, None, FALSE)

options_async_step_init(self, user_input, entry) ==
    LET api_token == Current(entry, "api_token")
        use_api_token == api_token # None
    IN  IF ~IsNone(user_input)
        THEN LET s1 == [self EXCEPT !._power = user_input["power"],
                                    !._power_p3 = user_input["power_p3"]]
             IN  IF user_input["use_api_token"]
                 THEN options_async_step_api_token(s1, user_input, entry)
                 ELSE Out(s1, async_create_entry(OptionsData(s1, None)), 0, None, FALSE)
        ELSE Out(self, async_show_form("init", Schema(use_api_token, None), ""),
                 0, None, FALSE)

\* ------------------------------------------------------------------ the host's input validation
\* The host runs a submission through the data_schema of the form it last
\* showed, when that form had one: a key left out takes the schema's default,
\* and every value, a default too, must have the field's type.
Invalid == [k \in {"<Invalid>"} |-> TRUE]
WithDefault(d, k, v) == IF Has(d, k) THEN d ELSE (k :> v) @@ d

\* vol.Schema({vol.Required(CONF_API_TOKEN, default=...): str})
ApiTokenSchema(schema, raw) ==
    LET d == WithDefault(raw, "api_token", schema.api_token)
    IN  IF DOMAIN d = {"api_token"} /\ d["api_token"] \in StrTokens THEN d ELSE Invalid

\* vol.Schema({vol.Required(CONF_USE_API_TOKEN, default=...): bool,
\*             vol.Optional(CONF_API_TOKEN, default=...): str})
ReauthSchema(schema, raw) ==
    LET d == WithDefault(WithDefault(raw, "api_token", schema.api_token),
                         "use_api_token", schema.use_api_token)
    IN  IF d["api_token"] \in StrTokens THEN d ELSE Invalid

\* What may be posted to a token form and to the reauth_confirm form.
RawTokenInputs == {EmptyDict} \cup {[api_token |-> t] : t \in Tokens}
RawReauthInputs ==
    RawTokenInputs
        \cup {[use_api_token |-> u] : u \in BOOLEAN}
        \cup {[use_api_token |-> u, api_token |-> t] : u \in BOOLEAN, t \in Tokens}

\* The user_input values the host hands to the step handler of a form.
TokenInputs(schema) ==
    {NoInput} \cup
    (IF schema.on
     THEN {ApiTokenSchema(schema, raw) : raw \in RawTokenInputs} \ {Invalid}
     ELSE RawTokenInputs)

ReauthInputs(schema) ==
    {NoInput} \cup
    (IF schema.on
     THEN {ReauthSchema(schema, raw) : raw \in RawReauthInputs} \ {Invalid}
     ELSE RawReauthInputs)

\* The user and init forms always carry their schema, whose fields are all
\* required with a default: what reaches the handler is a full dict.
UserInputs ==
    {NoInput} \cup
    {[name |-> n, tariff |-> t, power |-> p[1], power_p3 |-> p[2], use_api_token |-> u] :
        n \in Names, t \in Tariffs, p \in PowerPairs, u \in BOOLEAN}

InitInputs ==
    {NoInput} \cup
    {[power |-> p[1], power_p3 |-> p[2], use_api_token |-> u] :
        p \in PowerPairs, u \in BOOLEAN}

\* ------------------------------------------------------------------ state
SetupFlows == {"s1", "s2"}
ReauthFlow == "r"
ConfigFlows == SetupFlows \cup {ReauthFlow}

VARIABLES
    entries,          \* the host's stored config entries, by entry id
    nextId,           \* the next entry id the host hands out
    flows,            \* the TariffSelectorConfigFlow objects in progress
    opt,              \* the PVPCOptionsFlowHandler object in progress
    starts,           \* flows started so far
    surplus,          \* calls of check_api_token so far, less the submissions
                      \* that reached _async_verify with _use_api_token set
    last              \* the handler call made last and what it returned

vars == <<entries, nextId, flows, opt, starts, surplus, last>>

NoCall ==
    [flow |-> "", handler |-> "", kind |-> "", step_id |-> "",
     schema |-> FALSE, errors |-> "", reason |-> "", calls |-> 0, ok |-> FALSE,
     tok |-> None, use |-> FALSE, shown |-> FALSE, data |-> EmptyDict,
     entry |-> NoEntry, uid |-> None, sub |-> None, origin |-> EmptyDict,
     rejected |-> NotRejected]

\* The session of a step that took a submission as the source of its record
\* fields.
Began(out, origin) ==
    IF IsNone(origin) THEN out ELSE [out EXCEPT !.self.origin = origin]

\* sub is the token the submission carried; origin and rejected are the
\* session's history as the step found it (origin with this step's own
\* submission where the step is the one that takes it).
Call(f, handler, input, out, use, shown, entry, origin, rejected) ==
    [flow |-> f, handler |-> handler, kind |-> out.res.kind,
     step_id |-> out.res.step_id, schema |-> out.res.schema.on,
     errors |-> out.res.errors, reason |-> out.res.reason, calls |-> out.calls,
     ok |-> out.ok, tok |-> out.tok, use |-> use, shown |-> shown,
     data |-> out.res.data, entry |-> entry, uid |-> Get(input, "tariff"),
     sub |-> Get(input, "api_token"), origin |-> origin, rejected |-> rejected]

Init ==
    /\ entries = [i \in {} |-> EmptyDict]
    /\ nextId = 1
    /\ flows = [f \in ConfigFlows |-> IdleFlow]
    /\ opt = IdleOptions
    /\ starts = 0
    /\ surplus = 0
    /\ last = NoCall

\* ------------------------------------------------------------------ the host
Configured == {entries[i].unique_id : i \in DOMAIN entries}

\* the unique ids held by the other config flows in progress
InProgress(f) ==
    {flows[g].unique_id : g \in {h \in ConfigFlows \ {f} : flows[h].st = "active"}} \ {None}

\* async_finish_flow for a created entry: an entry with the same unique id is
\* removed, and the new entry is added with empty options.
AddEntry(es, id, uid, data) ==
    LET keep == {i \in DOMAIN es : uid = None \/ es[i].unique_id # uid}
    IN  (id :> [unique_id |-> uid, data |-> data, options |-> EmptyDict])
            @@ [i \in keep |-> es[i]]

\* async_finish_flow aborts the other flows in progress on the same unique id.
AbortSameUniqueId(fs, f, uid) ==
    [g \in ConfigFlows |->
        IF g # f /\ fs[g].st = "active" /\ uid # None /\ fs[g].unique_id = uid
        THEN IdleFlow ELSE fs[g]]

\* The flow manager takes the result of a TariffSelectorConfigFlow step.
HostConfig(f, out, attempts) ==
    LET res == out.res
        self == out.self
    IN  /\ surplus + out.calls - attempts \in -MaxSurplus .. MaxSurplus
        /\ surplus' = surplus + out.calls - attempts
        /\ CASE res.kind = "form" ->
                  /\ flows' = [flows EXCEPT ![f] =
                        [self EXCEPT !.st = "active", !.cur_step = res.step_id,
                                     !.schema = res.schema,
                                     !.shown = @ \/ res.step_id = "api_token",
                                     !.rejected = IF res.errors # "" THEN out.tok
                                                  ELSE @]]
                  /\ UNCHANGED <<entries, nextId>>
             [] res.kind = "exception" ->
                  /\ flows' = [flows EXCEPT ![f] =
                        IF flows[f].st = "idle" THEN IdleFlow ELSE self]
                  /\ UNCHANGED <<entries, nextId>>
             [] res.kind = "abort" ->
                  /\ flows' = [flows EXCEPT ![f] = IdleFlow]
                  /\ entries' = IF res.entry \in DOMAIN entries
                                THEN [entries EXCEPT ![res.entry].data = res.data]
                                ELSE entries
                  /\ UNCHANGED nextId
             [] res.kind = "create_entry" ->
                  /\ nextId <= MaxEntries
                  /\ flows' = [AbortSameUniqueId(flows, f, self.unique_id)
                                  EXCEPT ![f] = IdleFlow]
                  /\ entries' = AddEntry(entries, nextId, self.unique_id, res.data)
                  /\ nextId' = nextId + 1

\* The options flow manager takes the result of a PVPCOptionsFlowHandler step:
\* a created entry becomes the options of the flow's config entry.
HostOptions(out) ==
    LET res == out.res
        self == out.self
    IN  /\ CASE res.kind = "form" ->
                  /\ opt' = [self EXCEPT !.st = "active", !.cur_step = res.step_id,
                                         !.schema = res.schema]
                  /\ UNCHANGED entries
             [] res.kind = "create_entry" ->
                  /\ opt' = IdleOptions
                  /\ entries' = [entries EXCEPT ![self.entry_id].options = res.data]
        /\ UNCHANGED <<nextId, flows, surplus>>

\* ------------------------------------------------------------------ setup flow
\* Setup sessions are interchangeable: the second slot is taken only while
\* the first is busy.
StartSetup(f) ==
    /\ flows[f].st = "idle"
    /\ f = "s2" => flows["s1"].st = "active"
    /\ starts < MaxStarts
    /\ starts' = starts + 1
    /\ LET out == async_step_user([IdleFlow EXCEPT !.source = "user"], NoInput, FALSE,
                                  InProgress(f), Configured)
       IN  /\ HostConfig(f, out, 0)
           /\ last' = Call(f, "user", NoInput, out, out.self._use_api_token, FALSE,
                           NoEntry, EmptyDict, NotRejected)
    /\ UNCHANGED opt

SubmitUser(f) ==
    /\ flows[f].st = "active"
    /\ flows[f].cur_step = "user"
    /\ \E user_input \in UserInputs :
         LET out == Began(async_step_user(flows[f], user_input, FALSE, InProgress(f),
                                          Configured), user_input)
         IN  /\ HostConfig(f, out, 0)
             /\ last' = Call(f, "user", user_input, out, out.self._use_api_token,
                             flows[f].shown, NoEntry, user_input, flows[f].rejected)
    /\ UNCHANGED <<opt, starts>>

\* whether a submission to a token form gets as far as _async_verify
ReachesVerify(step, user_input) ==
    CASE step = "api_token" -> ~IsNone(user_input) /\ Has(user_input, "api_token")
      [] step = "reauth_confirm" -> DictTruthy(user_input) /\ Has(user_input, "use_api_token")
      [] OTHER -> FALSE

Attempt(step, user_input, use) ==
    IF ReachesVerify(step, user_input) /\ use THEN 1 ELSE 0

\* The validator answers only when it is called: either way.
Answers(out) == IF out.calls > 0 THEN BOOLEAN ELSE {TRUE}

SubmitApiToken(f) ==
    /\ flows[f].st = "active"
    /\ flows[f].cur_step = "api_token"
    /\ \E user_input \in TokenInputs(flows[f].schema) :
       \E ok \in Answers(async_step_api_token(flows[f], user_input, TRUE)) :
         LET out == async_step_api_token(flows[f], user_input, ok)
         IN  /\ HostConfig(f, out, Attempt("api_token", user_input,
                                            out.self._use_api_token))
             /\ last' = Call(f, "api_token", user_input, out, out.self._use_api_token,
                             flows[f].shown, NoEntry, flows[f].origin,
                             flows[f].rejected)
    /\ UNCHANGED <<opt, starts>>

\* ------------------------------------------------------------------ reauth flow
\* The host starts a reauth flow for a stored entry with the entry's data.
StartReauth ==
    /\ flows[ReauthFlow].st = "idle"
    /\ starts < MaxStarts
    /\ starts' = starts + 1
    /\ \E e \in DOMAIN entries :
         LET self == [IdleFlow EXCEPT !.source = "reauth", !.entry_id = e,
                                      !.unique_id = entries[e].unique_id]
             out == Began(async_step_reauth(self, entries[e].data, FALSE),
                          entries[e].data)
         IN  /\ HostConfig(ReauthFlow, out, 0)
             /\ last' = Call(ReauthFlow, "reauth", NoInput, out,
                             out.self._use_api_token, FALSE, e, entries[e].data,
                             NotRejected)
    /\ UNCHANGED opt

SubmitReauthConfirm ==
    /\ flows[ReauthFlow].st = "active"
    /\ flows[ReauthFlow].cur_step = "reauth_confirm"
    /\ \E user_input \in ReauthInputs(flows[ReauthFlow].schema) :
       \E ok \in Answers(async_step_reauth_confirm(flows[ReauthFlow], user_input, TRUE)) :
         LET out == async_step_reauth_confirm(flows[ReauthFlow], user_input, ok)
         IN  /\ HostConfig(ReauthFlow, out, Attempt("reauth_confirm", user_input,
                                                     out.self._use_api_token))
             /\ last' = Call(ReauthFlow, "reauth_confirm", user_input, out,
                             out.self._use_api_token, FALSE,
                             flows[ReauthFlow].entry_id, flows[ReauthFlow].origin,
                             flows[ReauthFlow].rejected)
    /\ UNCHANGED <<opt, starts>>

\* ------------------------------------------------------------------ options flow
StartOptions ==
    /\ opt.st = "idle"
    /\ starts < MaxStarts
    /\ starts' = starts + 1
    /\ \E e \in DOMAIN entries :
         LET out == options_async_step_init([IdleOptions EXCEPT !.entry_id = e],
                                            NoInput, entries[e])
         IN  /\ HostOptions(out)
             /\ last' = Call("o", "init", NoInput, out, FALSE, FALSE, e, EmptyDict,
                             NotRejected)

SubmitInit ==
    /\ opt.st = "active"
    /\ opt.cur_step = "init"
    /\ opt.entry_id \in DOMAIN entries
    /\ \E user_input \in InitInputs :
         LET out == Began(options_async_step_init(opt, user_input,
                                                  entries[opt.entry_id]), user_input)
         IN  /\ HostOptions(out)
             /\ last' = Call("o", "init", user_input, out,
                             Has(user_input, "use_api_token") /\ user_input["use_api_token"],
                             FALSE, opt.entry_id, user_input, NotRejected)
    /\ UNCHANGED starts

SubmitOptionsApiToken ==
    /\ opt.st = "active"
    /\ opt.cur_step = "api_token"
    /\ opt.entry_id \in DOMAIN entries
    /\ \E user_input \in TokenInputs(opt.schema) :
         LET out == options_async_step_api_token(opt, user_input, entries[opt.entry_id])
         IN  /\ HostOptions(out)
             /\ last' = Call("o", "options_api_token", user_input, out, TRUE, FALSE,
                             opt.entry_id, opt.origin, NotRejected)
    /\ UNCHANGED starts

Next ==
    \/ \E f \in SetupFlows : StartSetup(f)
    \/ \E f \in SetupFlows : SubmitUser(f)
    \/ \E f \in SetupFlows : SubmitApiToken(f)
    \/ StartReauth
    \/ SubmitReauthConfirm
    \/ StartOptions
    \/ SubmitInit
    \/ SubmitOptionsApiToken

Spec == Init /\ [][Next]_vars

\* ------------------------------------------------------------------ properties
\* the call made last stored a record
Persisted == last.kind = "create_entry"
                \/ (last.kind = "abort" /\ last.reason = "reauth_successful")

\* the call made last asked the validator, which answered no
Rejected == last.calls > 0 /\ ~last.ok

\* C1: a record that the setup flow or the reauth flow stores with
\* use_api_token set carries a token that is not None, and that token is the
\* one the validator accepted in the verification that stored it.
C1_PersistedTokenValidated ==
    (last.flow \in ConfigFlows /\ Persisted /\ last.use) =>
        /\ last.data["api_token"] # None
        /\ last.calls = 1 /\ last.ok
        /\ last.tok = last.data["api_token"]

\* C2: a flow that completes with use_api_token false stores a record whose
\* token is None, whatever token the flow object or the stored entry held.
C2_NoTokenWhenUnused ==
    (Persisted /\ ~last.use) =>
        /\ last.data["api_token"] = None
        /\ \A i \in DOMAIN entries :
             (last.flow = "o" /\ i = last.entry) => Current(entries[i], "api_token") = None
        /\ \A i \in DOMAIN entries :
             (last.flow \in SetupFlows /\ i = nextId - 1) =>
                 Current(entries[i], "api_token") = None

\* C2 witness: an options flow completed from init with use_api_token false
\* on an entry whose data holds a token.
C2_Witness ==
    /\ last.flow = "o" /\ last.handler = "init" /\ Persisted /\ ~last.use
    /\ last.entry \in DOMAIN entries
    /\ entries[last.entry].data["api_token"] = "tokA"
    /\ Current(entries[last.entry], "api_token") = None

\* C3: when the validator answers no, the verification returns the form of
\* the step that called it with base=invalid_auth, and the step stores,
\* replaces and creates no record.
C3_RejectedShowsSameForm ==
    [][(last'.calls > 0 /\ ~last'.ok) =>
          /\ last'.kind = "form"
          /\ last'.step_id = last'.handler
          /\ last'.errors = "invalid_auth"
          /\ entries' = entries
          /\ nextId' = nextId]_vars

\* C3 witness: a rejected token in the setup flow and the form shown again.
C3_Witness ==
    /\ Rejected /\ last.kind = "form" /\ last.errors = "invalid_auth"
    /\ last.flow \in SetupFlows /\ last.step_id = "api_token"
    /\ flows[last.flow].st = "active" /\ flows[last.flow].cur_step = "api_token"

\* C4: when a reauth flow started for a stored record is given a token the
\* validator accepts, the number of stored records stays the same, the record
\* of that tariff id holds the submitted token, and no second record has the
\* tariff id.
C4_ReauthReplacesRecord ==
    [][(last'.flow = ReauthFlow /\ last'.handler = "reauth_confirm"
            /\ last'.calls > 0 /\ last'.ok) =>
          /\ last'.kind = "abort" /\ last'.reason = "reauth_successful"
          /\ DOMAIN entries' = DOMAIN entries
          /\ entries'[last'.entry].data["api_token"] = last'.tok
          /\ \A i \in DOMAIN entries' :
               entries'[i].unique_id = entries'[last'.entry].unique_id => i = last'.entry]_vars

\* C5: a user step submitted with a tariff id that a stored record has aborts
\* the flow there: no api_token form, no validator call, no new record, and
\* the stored records as they were.
C5_DuplicateTariffAborts ==
    [][(last'.flow \in SetupFlows /\ last'.handler = "user" /\ last'.uid \in Configured) =>
          /\ last'.kind = "abort"
          /\ last'.calls = 0
          /\ flows'[last'.flow] = IdleFlow
          /\ entries' = entries
          /\ nextId' = nextId]_vars

\* C5 witness: a setup flow aborted on a tariff id that is configured.
C5_Witness ==
    /\ last.flow \in SetupFlows /\ last.handler = "user" /\ last.kind = "abort"
    /\ last.reason = "already_configured"
    /\ last.uid \in Configured
    /\ flows[last.flow].st = "idle"

\* C6: the options flow stores a token only after the validator accepted it,
\* and shows the form again with invalid_auth when the validator rejects it.
C6_OptionsTokenVerified ==
    (last.flow = "o" /\ last.handler = "options_api_token" /\ Persisted) =>
        (last.calls = 1 /\ last.ok /\ last.tok = last.data["api_token"])

\* C7: a setup session creates its record only after the user step: with
\* use_api_token set, from the api_token step, after the api_token form was
\* shown and the validator accepted the submitted token; without it, straight
\* from the user step, with no api_token form shown and no validator call.
C7_SetupOrder ==
    (last.flow \in SetupFlows /\ last.kind = "create_entry") =>
        /\ last.data["name"] \in Names /\ last.data["tariff"] \in Tariffs
        /\ IF last.use
           THEN /\ last.handler = "api_token" /\ last.shown
                /\ last.calls = 1 /\ last.ok
                /\ last.tok = last.data["api_token"]
           ELSE /\ last.handler = "user" /\ ~last.shown
                /\ last.calls = 0
                /\ last.uid = last.data["tariff"]

\* C7 witness: a record created from the api_token step with an accepted token.
C7_Witness ==
    /\ last.flow \in SetupFlows /\ last.kind = "create_entry" /\ last.use
    /\ last.handler = "api_token" /\ last.tok = "tokA" /\ last.ok
    /\ \E i \in DOMAIN entries : entries[i].data["api_token"] = "tokA"

\* C8: every verification with use_api_token set calls the validator exactly
\* once, so calls and such verifications stay equal in number; a verification
\* with use_api_token false, and any other step, calls it not at all.
C8_OneCallPerAttempt ==
    /\ surplus = 0
    /\ last.calls \in {0, 1}
    /\ last.calls = 1 => (last.use /\ last.handler \in {"api_token", "reauth_confirm"})
    /\ (last.handler \in {"api_token", "reauth_confirm"} /\ ~last.use) => last.calls = 0

\* C8 witness: a reauth verification with use_api_token false ran without a
\* call, in a run whose earlier verification made one.
C8_Witness ==
    /\ last.flow = ReauthFlow /\ last.handler = "reauth_confirm" /\ ~last.use
    /\ last.kind = "exception" /\ last.reason = "AttributeError"
    /\ last.calls = 0 /\ surplus = 0
    /\ \E i \in DOMAIN entries : entries[i].data["api_token"] = "tokA"

\* C9 as stated: every step ends in a form (with no error, or invalid_auth on
\* the verification form) or in a stored record.
C9_OnlyInvalidAuth ==
    /\ last.kind \in {"", "form", "create_entry"}
    /\ last.errors \in {"", "invalid_auth"}
    /\ last.errors = "invalid_auth" => Rejected

\* C9 amended: every step ends in a form (with no error, or invalid_auth on
\* the verification form after a rejected token), in a stored record, in an
\* abort of the setup flow at the user step on a tariff id that is configured
\* or in progress, or in an exception: KeyError on a submission without the
\* key the handler reads, AttributeError from a reauth verification that
\* passed.
C9_Outcomes ==
    /\ last.kind \in {"", "form", "create_entry", "abort", "exception"}
    /\ last.errors \in {"", "invalid_auth"}
    /\ last.errors = "invalid_auth" <=> Rejected
    /\ Rejected => (last.kind = "form" /\ last.handler \in {"api_token", "reauth_confirm"})
    /\ last.kind = "abort" =>
          /\ last.flow \in SetupFlows /\ last.handler = "user" /\ last.uid # None
          /\ last.reason \in {"already_configured", "already_in_progress"}
    /\ last.kind = "exception" =>
          \/ last.handler = "api_token" /\ last.reason = "KeyError" /\ last.calls = 0
          \/ last.handler = "reauth_confirm" /\ last.reason = "KeyError" /\ last.calls = 0
          \/ last.handler = "reauth_confirm" /\ last.reason = "AttributeError"
                /\ (last.use => last.ok)

\* C9 witness: the setup flow aborted at the user step.
C9_Witness ==
    /\ last.kind = "abort" /\ last.handler = "user"
    /\ last.reason = "already_configured"
    /\ \E i \in DOMAIN entries : entries[i].unique_id = last.uid

\* C10: a stored record changes only in the step that completes an options
\* flow or a reauth flow on it; no step of a setup session, and no step of a
\* reauth or options session that shows a form or fails, changes or removes it.
C10_RecordsChangeOnlyOnCompletion ==
    [][\A i \in DOMAIN entries :
          \/ i \in DOMAIN entries' /\ entries'[i] = entries[i]
          \/ /\ last'.flow = "o" /\ last'.kind = "create_entry" /\ last'.entry = i
             /\ i \in DOMAIN entries' /\ entries'[i].data = entries[i].data
          \/ /\ last'.flow = ReauthFlow /\ last'.kind = "abort"
             /\ last'.reason = "reauth_successful" /\ last'.entry = i
             /\ i \in DOMAIN entries' /\ entries'[i].options = entries[i].options]_vars

\* C10 witness: a setup session created a second record beside a stored one.
C10_Witness ==
    /\ last.flow \in SetupFlows /\ last.kind = "create_entry"
    /\ Cardinality(DOMAIN entries) = 2
    /\ entries[1].unique_id # entries[2].unique_id


\* C11: with two setup sessions interleaved step by step, no two stored
\* records ever hold the same tariff id, although the tariff is checked when
\* the user step is submitted and the record is committed by a later step.
C11_NoDuplicateTariff ==
    \A i, j \in DOMAIN entries :
        entries[i].data["tariff"] = entries[j].data["tariff"] => i = j

\* Session s1 commits from its api_token step after the other session, which
\* started while s1 was in progress, has committed a record of its own.
C11_Witness ==
    /\ Cardinality(DOMAIN entries) = 2
    /\ last.flow = "s1"
    /\ last.handler = "api_token"
    /\ last.kind = "create_entry"
    /\ last.origin["tariff"] \in Tariffs


\* the call made last asked the validator, which answered yes
Accepted == last.calls > 0 /\ last.ok

\* C12: a failed verification of the setup flow is recoverable. When a token
\* is submitted to the api_token step after the validator has rejected an
\* earlier one and the validator accepts it, the flow commits a record that
\* holds the name, tariff id and both powers of the session's user step and
\* the token just submitted, which is the one the validator was asked about.
C12_RetryCommitsLatestToken ==
    (/\ last.flow \in SetupFlows
     /\ last.handler = "api_token"
     /\ last.rejected # NotRejected
     /\ Accepted) =>
        /\ last.kind = "create_entry"
        /\ last.tok = last.sub
        /\ last.data = [name |-> last.origin["name"],
                        tariff |-> last.origin["tariff"],
                        power |-> last.origin["power"],
                        power_p3 |-> last.origin["power_p3"],
                        api_token |-> last.sub]
        /\ \E i \in DOMAIN entries :
              /\ entries[i].data = last.data
              /\ entries[i].unique_id = last.origin["tariff"]

\* A record committed with a token other than the one rejected before.
C12_Witness ==
    /\ last.flow \in SetupFlows
    /\ last.handler = "api_token"
    /\ last.rejected \in Tokens \ {last.sub}
    /\ Accepted
    /\ last.kind = "create_entry"
    /\ Truthy(last.data["api_token"])



\* the record fields a reauth flow has no business with
KeptFields == {"name", "tariff", "power", "power_p3"}

\* C13: a reauth flow whose token the validator accepts completes, and the
\* record it writes back holds the name, tariff id, general power and peak
\* power of the entry data the flow was started with, whatever number of
\* verifications failed before: only the token may differ.
C13_ReauthKeepsRecordFields ==
    (last.flow = ReauthFlow /\ last.handler = "reauth_confirm" /\ Accepted) =>
        /\ Persisted
        /\ last.entry \in DOMAIN entries
        /\ \A k \in KeptFields :
              /\ last.data[k] = last.origin[k]
              /\ entries[last.entry].data[k] = last.origin[k]



\* C14: once a reauth flow has completed with a token the validator
\* accepted, the token an options flow opened next reads as the entry's
\* current one (the options value where the key is present, the data value
\* otherwise) is that token, whatever an earlier options flow left in the
\* entry's options.
C14_OptionsReadReauthToken ==
    (last.flow = ReauthFlow /\ last.handler = "reauth_confirm" /\ Accepted) =>
        /\ last.kind = "abort" /\ last.reason = "reauth_successful"
        /\ last.entry \in DOMAIN entries
        /\ Current(entries[last.entry], "api_token") = last.tok



\* C15: in the options flow a record with a token other than None is
\* persisted only by the api_token step, given a non-empty token, and holds
\* that token; init submitted with use_api_token set, and api_token submitted
\* with an empty or missing token, show the api_token form and leave the
\* stored records as they were; a persisted record holds the powers of the
\* init submission of its session and becomes the entry's options.
C15_OptionsTokenOnlyFromTokenStep ==
    [][last'.flow = "o" =>
          /\ (last'.kind = "create_entry" /\ last'.data["api_token"] # None) =>
                /\ last'.handler = "options_api_token"
                /\ Truthy(last'.sub)
                /\ last'.data["api_token"] = last'.sub
          /\ (\/ last'.handler = "init" /\ last'.use
              \/ last'.handler = "options_api_token" /\ ~Truthy(last'.sub)) =>
                /\ last'.kind = "form" /\ last'.step_id = "api_token"
                /\ opt'.st = "active" /\ opt'.cur_step = "api_token"
                /\ entries' = entries
          /\ last'.kind = "create_entry" =>
                /\ last'.data["power"] = last'.origin["power"]
                /\ last'.data["power_p3"] = last'.origin["power_p3"]
                /\ entries'[last'.entry].options = last'.data
                /\ entries'[last'.entry].data = entries[last'.entry].data]_vars

\* The api_token step of the options flow persists a submitted token with
\* powers that differ from those of the entry's data.
C15_Witness ==
    /\ last.flow = "o"
    /\ last.handler = "options_api_token"
    /\ last.kind = "create_entry"
    /\ Truthy(last.sub)
    /\ last.entry \in DOMAIN entries
    /\ entries[last.entry].options = last.data
    /\ last.data["power"] # entries[last.entry].data["power"]
    /\ last.data["power"] = last.origin["power"]


====
